---- MODULE Spec2Model ----
(***************************************************************************)
(* A model of a-bind 2.1.0 (src/src/a-bind.js): the <a-bind> directive,    *)
(* the ModelObserver publish/subscribe registry, the UpdateManager that    *)
(* batches element writes into one animation frame, and the <a-bindgroup>  *)
(* container with its model registry and reference counts.                 *)
(*                                                                         *)
(* JavaScript runs one task at a time.  An action of this model is one     *)
(* synchronous run of a handler: a lifecycle callback, a setter, an event  *)
(* listener, a timer callback, an animation frame, or the part of an async *)
(* function between two awaits.  Time is counted in ticks; a timer holds   *)
(* the ticks that remain and may fire once none remains.                   *)
(*                                                                         *)
(* Directives are bound through `property` (model-attr and func stay null),*)
(* the event is the default 'input', elem-attr is the default 'value' and  *)
(* the bound element is a text control, whose value property stores the    *)
(* string form of what is assigned to it.                                  *)
(***************************************************************************)
EXTENDS Integers, FiniteSets, Sequences, TLC

\* ------------------------------------------------------------------ bounds
\* The positive value of the throttle attribute, in ticks.
Throttle == 2
\* The most callbacks one directive may have registered on one (model,
\* property), and the most live element listeners it may have.
MaxSubs == 1
\* The longest delay handed to updateDefer, in ticks, and the most
\* updateDefer timers armed at a time.
MaxDelay == 1
MaxDefer == 1
\* The most model instances the groups may create, and the most loads one
\* group may have in flight.
MaxInst == 3
MaxLoads == 1
\* The largest reference count a registry key is followed to.
MaxCount == 3
\* The most callbacks and listeners of one directive followed when the
\* property attribute is rewritten.
MaxStale == 2
MaxChildren == 2

\* ------------------------------------------------------------- the universe
Directives == {"d1", "d2"}
\* The directives the host drives in the main specification.
Hosted == {"d1"}
\* Plain objects used as models, named by identity.
Models == {"m1", "m2"}
\* The a-bindgroup containers, and the group each directive sits in.
Groups == {"g1", "g2"}
Parent(d) == IF d = "d1" THEN "g1" ELSE "g2"
Children(g) == {d \in Directives : Parent(d) = g}
\* Model keys of groups: a module whose default export is a class, and a
\* module whose default export is a plain object.
Keys == {"Store.js", "state.js"}
\* A model key that names a module of another origin.
RemoteKeys == {"https://cdn.example/Store.js"}
AllKeys == Keys \cup RemoteKeys
Instantiable(k) == k = "Store.js"
\* The object a module that exports no class exports.
Exported(k) == "o1"
\* The objects `new` creates, in the order of their creation.
InstNames == <<"i1", "i2", "i3", "i4", "i5">>
Instances == {InstNames[i] : i \in 1..MaxInst}
Objects == Models \cup Instances \cup {Exported(k) : k \in Keys}
Props == {"p", "q"}
\* A model given as a string that names no element of the document and no
\* global value.
UnresolvedRef == "missing"
\* A selector that names a custom element of the page, not yet defined, and
\* document.querySelector on it: the element is the object m1.
CustomElementRef == "#el"
Selectors == {CustomElementRef}
QuerySelector(sel) == "m1"

\* JavaScript values.  Strings stand for themselves; the others are tokens.
Null == "null"
Undefined == "undefined"
Num1 == "#1"
BTrue == "#true"
BFalse == "#false"
\* The absence of a map entry or of an argument.
None == "none"
\* A reference count: a positive number, Absent for a key the map does not
\* hold (get returns undefined), NaN for the number NaN.
Absent == 0
NaN == 0 - 1
\* A timer field holds the set of its armed timer: empty, or the ticks that
\* remain (with the value the callback closed over, for the input timer).
NoTimer == {}

\* What the user can type into the bound control.
Typed == {"A", "B"}
\* What the user can type into a control bound to a number.
TypedDigits == {"1", "A"}
\* What a caller can pass to ABind.update.
Published == {Undefined, "A", Num1}

VARIABLES
  \* ABind private fields, one per directive
  model, property, pull, push, once, throttle,
  isConnected, isInitializing, hasUpdated, boundElement,
  subscriptionCallback, subscribedProperty, childObserver,
  inputTimer, outputTimer, sinceLast, pendingOutputValue,
  \* the AbortController of the latest initialization still controls a listener
  ctlListener,
  \* the DOM around a directive
  hasChild, mutPending, listeners, elem,
  \* the bound control: its type, and its value attribute
  inputType, valueAttribute, childElementCount,
  \* the element whose definition the #resolveModel of a directive awaits
  resolving,
  \* the model objects and their observers (modelObservers)
  modelVal, subs, cbModel,
  \* UpdateManager
  pendingUpdates, frameRequested,
  \* the animation-frame callbacks requested and not yet run
  frames,
  \* timers armed by ABind.updateDefer
  deferred,
  \* ABindgroup private fields, one per group; the loads it awaits
  gModel, gConnected, modelKey, modelInstance, mutationObserver, loads,
  \* an observer the group no longer references is still observing; some
  \* observer of the group holds records it has not delivered; group g2
  \* sits inside group g1
  leakedObserver, gMutPending, nested,
  \* ABindgroup.modelRegistry, ABindgroup.modelReferenceCounts, and the
  \* number of objects created with `new`
  modelRegistry, modelReferenceCounts, created,
  \* history: the directives whose element the latest step wrote, and the
  \* element writes made so far while `once` was set (counted up to 2)
  wrote, onceWrites

dirCfg   == <<property, pull, push, once, throttle>>
dirLife  == <<isConnected, isInitializing, childObserver, hasChild, mutPending>>
dirBind  == <<boundElement, ctlListener, listeners, subscriptionCallback,
              subscribedProperty, cbModel, subs>>
dirOut   == <<sinceLast, pendingOutputValue, outputTimer>>
sched    == <<pendingUpdates, frameRequested, frames>>
dirVars  == <<model, dirCfg, dirLife, dirBind, dirOut, inputTimer, hasUpdated,
              elem, modelVal, sched, deferred, onceWrites>>
grpRest  == <<gModel, gConnected, modelKey, modelInstance, mutationObserver,
              leakedObserver, loads, modelRegistry, modelReferenceCounts,
              created, nested>>
grpVars  == <<grpRest, gMutPending>>
ctlElem  == <<inputType, valueAttribute, childElementCount>>
ctlKind  == <<ctlElem, resolving>>
vars     == <<dirVars, wrote, grpVars, ctlKind>>

\* ------------------------------------------------------ value conversions
\* #setElementAttribute, lines 565 and 597-598: undefined and null become '',
\* and the control's value property keeps the string form of the rest.
DomString(v) ==
  CASE v = Undefined -> ""
    [] v = Null      -> ""
    [] v = Num1      -> "1"
    [] v = BTrue     -> "true"
    [] v = BFalse    -> "false"
    [] OTHER         -> v

\* A variant of LooseEq that compares like ===.
StrictEq(a, b) == a = b

\* The == of #updateModel line 828 on the values of this model: a number
\* equals the string that spells it.
LooseEq(a, b) ==
  \/ a = b
  \/ {a, b} = {Num1, "1"}
  \/ {a, b} = {BTrue, "1"}
  \/ {a, b} = {BTrue, Num1}
  \/ {a, b} = {BFalse, ""}
  \/ {a, b} = {Null, Undefined}

\* The entry of a dotted path such as 'user.name' in an object that has no
\* `user`: the object the last segment would be read from does not exist.
NoParent == "no parent object"

\* #getObjectProperty, lines 311-325: acc && acc[part] along the path.  A
\* string has no property of the names in Props, and a path through a
\* missing segment yields undefined.
GetObjectProperty(m, p) ==
  IF m = Null THEN Null
  ELSE IF p = Null THEN m
  ELSE IF m \notin Objects THEN Undefined
  ELSE IF modelVal[m][p] = NoParent THEN Undefined
  ELSE modelVal[m][p]

\* #setObjectProperty, lines 609-622: the value is assigned only when the
\* parent of the last segment is an object.
SetObjectProperty(m, p, v) ==
  IF modelVal[m][p] = NoParent THEN modelVal ELSE [modelVal EXCEPT ![m][p] = v]

\* No microtask is waiting: timers and animation frames run only then.
Quiet ==
  /\ \A d \in Directives : ~isInitializing[d] /\ ~mutPending[d]
  /\ \A g \in Groups : ~gMutPending[g]

\* querySelectorAll('a-bind') on a group, line 1114: the directives in the
\* group and in the groups inside it.
Inside(g) == IF nested /\ g = "g1" THEN {"g2"} ELSE {}

Descendants(g) == Children(g) \cup UNION {Children(h) : h \in Inside(g)}

\* The MutationObserver of connectedCallback, lines 932-939, watches the
\* subtree of its group; Observing(g) says some observer of g is active.
Observing(g) == mutationObserver[g] \/ leakedObserver[g]

\* A node is added under directive d (or d itself is inserted): every
\* observing group around it gets a record.
NodeAdded(d) ==
  gMutPending' = [g \in Groups |->
                    gMutPending[g] \/ (d \in Descendants(g) /\ Observing(g))]

\* ---------------------------------------------------------- ModelObserver
\* A variant of Callbacks that takes the callbacks of every path of m.
CallbacksAnyPath(m, p, d) == subs[m]["p"][d] + subs[m]["q"][d]

\* The callbacks of directive d in the subscriber set of (m, p).  A callback
\* is a closure over its directive and reads the directive's fields when it
\* runs, so the callbacks of one directive on one path differ only in number.
Callbacks(m, p, d) == subs[m][p][d]

\* ModelObserver.subscribe: one more callback of d on (m, p).
Subscribe(s, m, p, d) == [s EXCEPT ![m][p][d] = @ + 1]

\* ModelObserver.unsubscribe of the directive's current callback: the set of
\* (m, p) loses it only when that is where it was registered.
Unsubscribe(s, m, p, d) ==
  IF cbModel[d] = m /\ s[m][p][d] > 0 THEN [s EXCEPT ![m][p][d] = @ - 1] ELSE s

\* The subscription callback of #setupListeners, lines 660-709, run for the
\* n callbacks directive d has on the published path.
CbIgnored(d) == once[d] /\ hasUpdated[d]

\* A variant of CbImmediate that never hands the value on.
CbImmediateNever(d) == FALSE

CbImmediate(d) ==
  /\ ~CbIgnored(d)
  /\ throttle[d] = 0 \/ sinceLast[d] >= throttle[d]

\* A variant of CbThrottled that keeps an earlier pending value.
CbThrottledUnlessArmed(d, n) ==
  /\ ~CbIgnored(d)
  /\ throttle[d] > 0
  /\ sinceLast[d] < throttle[d] \/ n >= 2
  /\ outputTimer[d] = NoTimer

\* The value is stored as pending output: the interval has not elapsed, or an
\* earlier callback of the same publish has just restarted it.
CbThrottled(d, n) ==
  /\ ~CbIgnored(d)
  /\ throttle[d] > 0
  /\ sinceLast[d] < throttle[d] \/ n >= 2

\* A variant of RequestFrame that requests a frame at every call.
RequestFrameEveryTime(need) ==
  /\ frameRequested' = (frameRequested \/ need)
  /\ frames' = IF need THEN frames + 1 ELSE frames

\* UpdateManager.scheduleUpdate, lines 75-78, called when `need` holds: a
\* frame is requested only if none is requested already.
RequestFrame(need) ==
  /\ frameRequested' = (frameRequested \/ need)
  /\ frames' = IF need /\ ~frameRequested THEN frames + 1 ELSE frames

\* ModelObserver.publish(p, v) on the observer of m: every callback on the
\* path runs before publish returns.
Publish(m, p, v) ==
  LET n(d)    == Callbacks(m, p, d)
      now(d)  == n(d) > 0 /\ CbImmediate(d)
      late(d) == n(d) > 0 /\ CbThrottled(d, n(d))
  IN /\ pendingUpdates' =
          [d \in Directives |-> IF now(d) THEN v ELSE pendingUpdates[d]]
     /\ RequestFrame(\E d \in Directives : now(d))
     /\ sinceLast' =
          [d \in Directives |->
             IF now(d) /\ throttle[d] > 0 THEN 0 ELSE sinceLast[d]]
     /\ pendingOutputValue' =
          [d \in Directives |-> IF late(d) THEN v ELSE pendingOutputValue[d]]
     /\ outputTimer' =
          [d \in Directives |->
             IF late(d) /\ outputTimer[d] = NoTimer
             THEN {throttle[d] - (IF now(d) THEN 0 ELSE sinceLast[d])}
             ELSE outputTimer[d]]

\* ------------------------------------------------------------ the directive
\* A variant of UpdateElementSkips without the `once` case.
UpdateElementSkipsWithoutOnce(d) == property[d] = Null \/ push[d]

\* #updateElement, line 758: the cases in which nothing is written.
UpdateElementSkips(d) ==
  \/ property[d] = Null
  \/ once[d] /\ hasUpdated[d]
  \/ push[d]

\* A variant of ElementValue that reads the model whatever value it is given.
ElementValueRereads(d, v) == DomString(GetObjectProperty(model[d], property[d]))

\* #updateElement, lines 766-789: what the bound control's value becomes.  An
\* undefined value is replaced by a read of the model.
ElementValue(d, v) ==
  DomString(IF v = Undefined THEN GetObjectProperty(model[d], property[d]) ELSE v)

\* The value property of the control: a checkbox without a value attribute
\* has the value "on".
ControlValue(d) == IF valueAttribute[d] = Null THEN "on" ELSE valueAttribute[d]

\* #setElementAttribute, lines 585-598, given the string form s of the value:
\* a checkbox is checked exactly when its value property equals s; any other
\* control takes s as its value.
SetElementAttribute(d, s) ==
  IF inputType[d] = "checkbox"
  THEN IF ControlValue(d) = s THEN BTrue ELSE BFalse
  ELSE s

\* The assignment of #setElementAttribute line 598 on <input type="file">:
\* its value property accepts the empty string only, any other string makes
\* the setter throw InvalidStateError.
WriteThrows(d, s) == inputType[d] = "file" /\ s # ""

\* #teardown, lines 721-734, with mNow the value of #model when it runs.
TeardownSubs(d, mNow) ==
  IF subscriptionCallback[d] /\ subscribedProperty[d] # Null /\ mNow \in Objects
  THEN Unsubscribe(subs, mNow, subscribedProperty[d], d)
  ELSE subs

\* A variant of Teardown that leaves the timers armed.
TeardownKeepsTimers(d, mNow) ==
  /\ listeners' = [listeners EXCEPT ![d] = IF ctlListener[d] THEN @ - 1 ELSE @]
  /\ ctlListener' = [ctlListener EXCEPT ![d] = FALSE]
  /\ UNCHANGED <<inputTimer, outputTimer, pendingOutputValue>>
  /\ subs' = TeardownSubs(d, mNow)
  /\ subscribedProperty' = [subscribedProperty EXCEPT ![d] = Null]
  /\ subscriptionCallback' = [subscriptionCallback EXCEPT ![d] = FALSE]
  /\ cbModel' = [cbModel EXCEPT ![d] = None]

Teardown(d, mNow) ==
  /\ listeners' = [listeners EXCEPT ![d] = IF ctlListener[d] THEN @ - 1 ELSE @]
  /\ ctlListener' = [ctlListener EXCEPT ![d] = FALSE]
  /\ inputTimer' = [inputTimer EXCEPT ![d] = NoTimer]
  /\ outputTimer' = [outputTimer EXCEPT ![d] = NoTimer]
  /\ pendingOutputValue' = [pendingOutputValue EXCEPT ![d] = Null]
  /\ subs' = TeardownSubs(d, mNow)
  /\ subscribedProperty' = [subscribedProperty EXCEPT ![d] = Null]
  /\ subscriptionCallback' = [subscriptionCallback EXCEPT ![d] = FALSE]
  /\ cbModel' = [cbModel EXCEPT ![d] = None]

NoTeardown ==
  UNCHANGED <<listeners, ctlListener, inputTimer, outputTimer,
              pendingOutputValue, subs, subscribedProperty,
              subscriptionCallback, cbModel>>

\* A variant of InitializeStart that goes on without a model.
InitializeStartAnyModel(d, mNow) ==
  /\ isInitializing' = [isInitializing EXCEPT ![d] = TRUE]
  /\ UNCHANGED resolving

\* #initialize up to its await, lines 387-404: it returns at once when an
\* initialization is in flight or no model is set.  #resolveModel, lines
\* 517-524, finds the element a selector names and, for a custom element,
\* waits for its definition with the element in its local `el`.
InitializeStart(d, mNow) ==
  /\ isInitializing' = [isInitializing EXCEPT ![d] = @ \/ mNow # Null]
  /\ resolving' = [resolving EXCEPT ![d] =
                     IF ~isInitializing[d] /\ mNow \in Selectors
                     THEN QuerySelector(mNow) ELSE @]

\* connectedCallback, lines 199-218.
Connect(d) ==
  /\ ~isConnected[d]
  /\ isConnected' = [isConnected EXCEPT ![d] = TRUE]
  /\ IF hasChild[d]
     THEN InitializeStart(d, model[d]) /\ UNCHANGED childObserver
     ELSE /\ childObserver' = [childObserver EXCEPT ![d] = TRUE]
          /\ UNCHANGED <<isInitializing, resolving>>
  /\ NoTeardown
  /\ wrote' = {}
  /\ NodeAdded(d) /\ UNCHANGED grpRest
  /\ UNCHANGED <<model, dirCfg, hasChild, mutPending, boundElement, sinceLast,
                 hasUpdated, elem, modelVal, sched, deferred, onceWrites>>
  /\ UNCHANGED ctlElem

\* disconnectedCallback, lines 224-232.  Disconnecting the child observer
\* drops the records it has not delivered.
Disconnect(d) ==
  /\ isConnected[d]
  /\ Teardown(d, model[d])
  /\ childObserver' = [childObserver EXCEPT ![d] = FALSE]
  /\ mutPending' = [mutPending EXCEPT ![d] = FALSE]
  /\ isConnected' = [isConnected EXCEPT ![d] = FALSE]
  /\ wrote' = {}
  /\ UNCHANGED grpVars
  /\ UNCHANGED <<model, dirCfg, isInitializing, hasChild, boundElement,
                 sinceLast, hasUpdated, elem, modelVal, sched, deferred,
                 onceWrites>>
  /\ UNCHANGED ctlKind

\* #reinitialize, lines 477-482, after the field named by the change was set.
Reinitialize(d, mNow) ==
  IF isConnected[d]
  THEN Teardown(d, mNow) /\ InitializeStart(d, mNow)
  ELSE NoTeardown /\ UNCHANGED <<isInitializing, resolving>>

\* set model, lines 872-875: the field is assigned before the teardown.
SetModel(d, m) ==
  /\ model' = [model EXCEPT ![d] = m]
  /\ Reinitialize(d, m)
  /\ wrote' = {}
  /\ UNCHANGED grpVars
  /\ UNCHANGED <<dirCfg, isConnected, childObserver, hasChild, mutPending,
                 boundElement, sinceLast, hasUpdated, elem, modelVal, sched,
                 deferred, onceWrites>>
  /\ UNCHANGED ctlElem

\* attributeChangedCallback for 'property', lines 170-192.
SetProperty(d, p) ==
  /\ p # property[d]
  /\ property' = [property EXCEPT ![d] = p]
  /\ Reinitialize(d, model[d])
  /\ wrote' = {}
  /\ UNCHANGED grpVars
  /\ UNCHANGED <<model, pull, push, once, throttle, isConnected, childObserver,
                 hasChild, mutPending, boundElement, sinceLast, hasUpdated,
                 elem, modelVal, sched, deferred, onceWrites>>
  /\ UNCHANGED ctlElem

\* attributeChangedCallback for the attributes that only set a field,
\* lines 178-181: no teardown, no initialization.
SetPull(d, b) ==
  /\ b # pull[d]
  /\ pull' = [pull EXCEPT ![d] = b]
  /\ wrote' = {}
  /\ UNCHANGED grpVars
  /\ UNCHANGED <<model, property, push, once, throttle, dirLife, dirBind,
                 dirOut, inputTimer, hasUpdated, elem, modelVal, sched,
                 deferred, onceWrites>>
  /\ UNCHANGED ctlKind

SetPush(d, b) ==
  /\ b # push[d]
  /\ push' = [push EXCEPT ![d] = b]
  /\ wrote' = {}
  /\ UNCHANGED grpVars
  /\ UNCHANGED <<model, property, pull, once, throttle, dirLife, dirBind,
                 dirOut, inputTimer, hasUpdated, elem, modelVal, sched,
                 deferred, onceWrites>>
  /\ UNCHANGED ctlKind

SetOnce(d, b) ==
  /\ b # once[d]
  /\ once' = [once EXCEPT ![d] = b]
  /\ wrote' = {}
  /\ UNCHANGED grpVars
  /\ UNCHANGED <<model, property, pull, push, throttle, dirLife, dirBind,
                 dirOut, inputTimer, hasUpdated, elem, modelVal, sched,
                 deferred, onceWrites>>
  /\ UNCHANGED ctlKind

SetThrottle(d, t) ==
  /\ t # throttle[d]
  /\ throttle' = [throttle EXCEPT ![d] = t]
  /\ wrote' = {}
  /\ UNCHANGED grpVars
  /\ UNCHANGED <<model, property, pull, push, once, dirLife, dirBind,
                 dirOut, inputTimer, hasUpdated, elem, modelVal, sched,
                 deferred, onceWrites>>
  /\ UNCHANGED ctlKind

\* The host gives the directive its child element; a waiting child observer
\* gets a mutation record, delivered in a later microtask.
AddChild(d) ==
  /\ ~hasChild[d]
  /\ hasChild' = [hasChild EXCEPT ![d] = TRUE]
  /\ inputType' = [inputType EXCEPT ![d] = "text"]
  /\ childElementCount' = [childElementCount EXCEPT ![d] = 1]
  /\ mutPending' = [mutPending EXCEPT ![d] = childObserver[d]]
  /\ wrote' = {}
  /\ NodeAdded(d) /\ UNCHANGED grpRest
  /\ UNCHANGED <<model, dirCfg, isConnected, isInitializing, childObserver,
                 dirBind, dirOut, inputTimer, hasUpdated, elem, modelVal,
                 sched, deferred, onceWrites, valueAttribute, resolving>>

\* The host appends <input type="checkbox"> to the directive, unchecked, with
\* the value attribute va (Null for none).
AddCheckbox(d, va) ==
  /\ ~hasChild[d]
  /\ hasChild' = [hasChild EXCEPT ![d] = TRUE]
  /\ inputType' = [inputType EXCEPT ![d] = "checkbox"]
  /\ valueAttribute' = [valueAttribute EXCEPT ![d] = va]
  /\ childElementCount' = [childElementCount EXCEPT ![d] = 1]
  /\ elem' = [elem EXCEPT ![d] = BFalse]
  /\ mutPending' = [mutPending EXCEPT ![d] = childObserver[d]]
  /\ wrote' = {}
  /\ NodeAdded(d) /\ UNCHANGED grpRest
  /\ UNCHANGED <<model, dirCfg, isConnected, isInitializing, childObserver,
                 dirBind, dirOut, inputTimer, hasUpdated, modelVal,
                 sched, deferred, onceWrites, resolving>>

\* The host appends <input type="file"> to the directive.
AddFileInput(d) ==
  /\ ~hasChild[d]
  /\ hasChild' = [hasChild EXCEPT ![d] = TRUE]
  /\ inputType' = [inputType EXCEPT ![d] = "file"]
  /\ childElementCount' = [childElementCount EXCEPT ![d] = 1]
  /\ mutPending' = [mutPending EXCEPT ![d] = childObserver[d]]
  /\ wrote' = {}
  /\ NodeAdded(d) /\ UNCHANGED grpRest
  /\ UNCHANGED <<model, dirCfg, isConnected, isInitializing, childObserver,
                 dirBind, dirOut, inputTimer, hasUpdated, elem, modelVal,
                 sched, deferred, onceWrites, valueAttribute, resolving>>

\* The host appends one more element after the first child: the child
\* observer, when it is watching (childList, line 213), gets a record.
AddSibling(d) ==
  /\ hasChild[d] /\ childElementCount[d] < MaxChildren
  /\ childElementCount' = [childElementCount EXCEPT ![d] = @ + 1]
  /\ mutPending' = [mutPending EXCEPT ![d] = @ \/ childObserver[d]]
  /\ wrote' = {}
  /\ NodeAdded(d) /\ UNCHANGED grpRest
  /\ UNCHANGED <<model, dirCfg, isConnected, isInitializing, childObserver,
                 hasChild, dirBind, dirOut, inputTimer, hasUpdated, elem,
                 modelVal, sched, deferred, onceWrites, inputType,
                 valueAttribute, resolving>>

\* A variant of ChildObserved that keeps the observer watching.
ChildObservedStays(d) ==
  /\ mutPending[d]
  /\ mutPending' = [mutPending EXCEPT ![d] = FALSE]
  /\ UNCHANGED childObserver
  /\ InitializeStart(d, model[d])
  /\ NoTeardown
  /\ wrote' = {}
  /\ UNCHANGED grpVars
  /\ UNCHANGED <<model, dirCfg, isConnected, hasChild, boundElement, sinceLast,
                 hasUpdated, elem, modelVal, sched, deferred, onceWrites>>
  /\ UNCHANGED ctlElem

\* The MutationObserver callback of connectedCallback, lines 206-212.
ChildObserved(d) ==
  /\ mutPending[d]
  /\ mutPending' = [mutPending EXCEPT ![d] = FALSE]
  /\ childObserver' = [childObserver EXCEPT ![d] = FALSE]
  /\ InitializeStart(d, model[d])
  /\ NoTeardown
  /\ wrote' = {}
  /\ UNCHANGED grpVars
  /\ UNCHANGED <<model, dirCfg, isConnected, hasChild, boundElement, sinceLast,
                 hasUpdated, elem, modelVal, sched, deferred, onceWrites>>
  /\ UNCHANGED ctlElem

\* #setupListeners, lines 630-715, with a new AbortController (line 439).
\* A listener is attached unless pull is set; unless push is set the
\* subscribed property is recorded (line 656), and a callback is created and
\* subscribed when the model has an observer, which only an object has
\* (#getObserver, lines 862-868).
AttachesListener(d) == property[d] # Null /\ ~pull[d]

RecordsProperty(d) == property[d] # Null /\ ~push[d]

SubscribesObserver(d) == RecordsProperty(d) /\ model[d] \in Objects

SetupListeners(d) ==
  /\ ctlListener' = [ctlListener EXCEPT ![d] = AttachesListener(d)]
  /\ listeners' = [listeners EXCEPT ![d] = IF AttachesListener(d) THEN @ + 1 ELSE @]
  /\ subscribedProperty' =
       [subscribedProperty EXCEPT ![d] = IF RecordsProperty(d) THEN property[d] ELSE @]
  /\ IF SubscribesObserver(d)
     THEN /\ subs' = Subscribe(subs, model[d], property[d], d)
          /\ subscriptionCallback' = [subscriptionCallback EXCEPT ![d] = TRUE]
          /\ cbModel' = [cbModel EXCEPT ![d] = model[d]]
     ELSE UNCHANGED <<subs, subscriptionCallback, cbModel>>

\* #updateElement, lines 753-797, for the directives in ds with values val.
WriteElements(ds, val) ==
  /\ elem' = [d \in Directives |->
                IF d \in ds THEN SetElementAttribute(d, ElementValue(d, val[d]))
                ELSE elem[d]]
  /\ hasUpdated' = [d \in Directives |-> hasUpdated[d] \/ d \in ds]
  /\ onceWrites' = [d \in Directives |->
                      IF d \in ds /\ once[d] /\ onceWrites[d] < 2
                      THEN onceWrites[d] + 1 ELSE onceWrites[d]]

\* #resolveModel after its await, lines 525-534: the element found before
\* the wait becomes the model.
ResolveModelResume(d) ==
  /\ resolving[d] # None
  /\ model' = [model EXCEPT ![d] = resolving[d]]
  /\ resolving' = [resolving EXCEPT ![d] = None]
  /\ wrote' = {}
  /\ UNCHANGED grpVars
  /\ UNCHANGED <<dirCfg, dirLife, dirBind, dirOut, inputTimer, hasUpdated,
                 elem, modelVal, sched, deferred, onceWrites, ctlElem>>

\* The initialization of d would leave it with at most n live listeners and
\* at most n callbacks on its path (the counters are followed no further).
BelowCap(d, n) ==
  isInitializing[d] /\ hasChild[d] =>
    /\ AttachesListener(d) => listeners[d] < n
    /\ SubscribesObserver(d) => Callbacks(model[d], property[d], d) < n

\* #initialize after its await, lines 406-450: it goes on with the fields as
\* they are now, whatever happened to the directive while it waited.  An
\* exception of the first write is caught (line 446) after the listeners were
\* set up and before #hasUpdated is set.
InitializeResume(d) ==
  /\ isInitializing[d]
  /\ resolving[d] = None
  /\ isInitializing' = [isInitializing EXCEPT ![d] = FALSE]
  /\ IF ~hasChild[d]
     THEN /\ UNCHANGED <<dirBind, hasUpdated, elem, onceWrites>>
          /\ wrote' = {}
     ELSE /\ boundElement' = [boundElement EXCEPT ![d] = TRUE]
          /\ SetupListeners(d)
          /\ LET ds == IF \/ UpdateElementSkips(d)
                          \/ WriteThrows(d, ElementValue(d, Undefined))
                       THEN {} ELSE {d}
             IN /\ WriteElements(ds, [e \in Directives |-> Undefined])
                /\ wrote' = ds
  /\ UNCHANGED <<model, dirCfg, isConnected, childObserver, hasChild,
                 mutPending, dirOut, inputTimer, modelVal, sched, deferred>>
  /\ UNCHANGED grpVars
  /\ UNCHANGED ctlKind

\* A variant of UpdateModel without the comparison with the old value.
UpdateModelAlways(d, v) ==
  /\ model[d] \in Objects
  /\ modelVal' = [modelVal EXCEPT ![model[d]][property[d]] = v]
  /\ Publish(model[d], property[d], v)

\* #updateModel, lines 806-851: skipped when the values are loosely equal,
\* else the model is written, if #setObjectProperty finds where, and the
\* change published (line 851) whether or not it was written.  A model that is not
\* an object is not written (#setObjectProperty, line 614) and has no
\* observer to publish on.
UpdateModel(d, v) ==
  IF LooseEq(GetObjectProperty(model[d], property[d]), v) \/ model[d] \notin Objects
  THEN UNCHANGED <<modelVal, sched, dirOut>>
  ELSE /\ modelVal' = SetObjectProperty(model[d], property[d], v)
       /\ Publish(model[d], property[d], v)

\* A variant of HandlesEvent without the early return for pull.
HandlesEventIgnoringPull(d) == listeners[d] > 0 /\ property[d] # Null

\* #handleElementEvent, lines 334-373, on a text control: the value is the
\* event target's value.
HandlesEvent(d) == listeners[d] > 0 /\ ~pull[d] /\ property[d] # Null

\* The user types v into the bound control and the 'input' event is
\* dispatched.  Every live listener runs the handler; a second run finds the
\* model equal to v (or re-arms the same timer) and changes nothing more.
Interact(d, v) ==
  /\ hasChild[d] /\ inputType[d] = "text"
  /\ elem' = [elem EXCEPT ![d] = v]
  /\ IF ~HandlesEvent(d)
     THEN UNCHANGED <<modelVal, sched, dirOut, inputTimer>>
     ELSE IF throttle[d] > 0
          THEN /\ inputTimer' =
                    [inputTimer EXCEPT ![d] = {[rem |-> throttle[d], val |-> v]}]
               /\ UNCHANGED <<modelVal, sched, dirOut>>
          ELSE UpdateModel(d, v) /\ UNCHANGED inputTimer
  /\ wrote' = {}
  /\ UNCHANGED grpVars
  /\ UNCHANGED <<model, dirCfg, dirLife, dirBind, hasUpdated, deferred,
                 onceWrites>>
  /\ UNCHANGED ctlKind

\* #handleElementEvent, lines 350-351, on a checkbox: the value attribute
\* (true when it is absent or empty) if the box is checked, else false.
CheckboxValue(d, isChecked) ==
  IF isChecked = BTrue
  THEN IF valueAttribute[d] \in {Null, ""} THEN BTrue ELSE valueAttribute[d]
  ELSE BFalse

\* The user clicks the bound checkbox: its checked state flips and the
\* 'input' event is dispatched.
Toggle(d) ==
  /\ hasChild[d] /\ inputType[d] = "checkbox"
  /\ LET now == IF elem[d] = BTrue THEN BFalse ELSE BTrue
     IN /\ elem' = [elem EXCEPT ![d] = now]
        /\ IF ~HandlesEvent(d)
           THEN UNCHANGED <<modelVal, sched, dirOut, inputTimer>>
           ELSE IF throttle[d] > 0
                THEN /\ inputTimer' =
                          [inputTimer EXCEPT
                             ![d] = {[rem |-> throttle[d],
                                      val |-> CheckboxValue(d, now)]}]
                     /\ UNCHANGED <<modelVal, sched, dirOut>>
                ELSE UpdateModel(d, CheckboxValue(d, now)) /\ UNCHANGED inputTimer
  /\ wrote' = {}
  /\ UNCHANGED grpVars
  /\ UNCHANGED <<model, dirCfg, dirLife, dirBind, hasUpdated, deferred,
                 onceWrites>>
  /\ UNCHANGED ctlKind

\* The debounce timer of #handleElementEvent, lines 366-369.
InputTimerFire(d) ==
  /\ Quiet
  /\ \E t \in inputTimer[d] : t.rem = 0 /\ UpdateModel(d, t.val)
  /\ inputTimer' = [inputTimer EXCEPT ![d] = NoTimer]
  /\ wrote' = {}
  /\ UNCHANGED grpVars
  /\ UNCHANGED <<model, dirCfg, dirLife, dirBind, hasUpdated, elem, deferred,
                 onceWrites>>
  /\ UNCHANGED ctlKind

\* UpdateManager.scheduleUpdate, lines 73-79.
ScheduleUpdate(d, v) ==
  /\ pendingUpdates' = [pendingUpdates EXCEPT ![d] = v]
  /\ RequestFrame(TRUE)

\* The rate-limit timer of the subscription callback, lines 698-702.
OutputTimerFire(d) ==
  /\ Quiet
  /\ 0 \in outputTimer[d]
  /\ sinceLast' = [sinceLast EXCEPT ![d] = 0]
  /\ ScheduleUpdate(d, pendingOutputValue[d])
  /\ outputTimer' = [outputTimer EXCEPT ![d] = NoTimer]
  /\ wrote' = {}
  /\ UNCHANGED grpVars
  /\ UNCHANGED <<model, dirCfg, dirLife, dirBind, pendingOutputValue,
                 inputTimer, hasUpdated, elem, modelVal, deferred, onceWrites>>
  /\ UNCHANGED ctlKind

\* A variant of FlushApplies without the check of the connection.
FlushAppliesDisconnected(d) ==
  pendingUpdates[d] # None /\ ~UpdateElementSkips(d)

\* #flushUpdates line 83 and #updateElement line 758: the entries of the map
\* whose element is written.
FlushApplies(d) ==
  pendingUpdates[d] # None /\ isConnected[d] /\ ~UpdateElementSkips(d)

\* The entries of the map whose write throws.
FlushThrows(d) ==
  FlushApplies(d) /\ WriteThrows(d, ElementValue(d, pendingUpdates[d]))

\* UpdateManager.#flushUpdates, lines 81-87, run by requestAnimationFrame.
\* Nothing catches an exception of applyUpdate: it ends the forEach of line
\* 82, so that the entries before the throwing one in the map's insertion
\* order are written, those after it are not, and lines 85-86 are not
\* reached.  The insertion order is not kept here: any set of the other
\* entries may be the one written.
Flush ==
  /\ Quiet
  /\ frames > 0
  /\ frames' = frames - 1
  /\ LET ap  == {d \in Directives : FlushApplies(d)}
         bad == {d \in Directives : FlushThrows(d)}
     IN IF bad = {}
        THEN /\ WriteElements(ap, pendingUpdates)
             /\ wrote' = ap
             /\ pendingUpdates' = [d \in Directives |-> None]
             /\ frameRequested' = FALSE
        ELSE /\ \E ds \in SUBSET (ap \ bad) :
                  WriteElements(ds, pendingUpdates) /\ wrote' = ds
             /\ UNCHANGED <<pendingUpdates, frameRequested>>
  /\ UNCHANGED <<model, dirCfg, dirLife, dirBind, dirOut, inputTimer,
                 modelVal, deferred>>
  /\ UNCHANGED grpVars
  /\ UNCHANGED ctlKind

\* A variant of Update that also stores the value in the model.
UpdateWritesModel(m, p, v) ==
  /\ Publish(m, p, v)
  /\ modelVal' = [modelVal EXCEPT ![m][p] = v]
  /\ wrote' = {}
  /\ UNCHANGED grpVars
  /\ UNCHANGED <<model, dirCfg, dirLife, dirBind, inputTimer, hasUpdated,
                 elem, deferred, onceWrites>>
  /\ UNCHANGED ctlKind

\* ABind.update, lines 244-248: publishes and writes nothing itself.
Update(m, p, v) ==
  /\ Publish(m, p, v)
  /\ wrote' = {}
  /\ UNCHANGED grpVars
  /\ UNCHANGED <<model, dirCfg, dirLife, dirBind, inputTimer, hasUpdated,
                 elem, modelVal, deferred, onceWrites>>
  /\ UNCHANGED ctlKind

\* ABind.updateDefer, lines 258-263: arms a timer.
UpdateDefer(m, p, w) ==
  /\ Cardinality(deferred) < MaxDefer
  /\ deferred' = deferred \cup {[m |-> m, p |-> p, rem |-> w]}
  /\ wrote' = {}
  /\ UNCHANGED grpVars
  /\ UNCHANGED <<model, dirCfg, dirLife, dirBind, dirOut, inputTimer,
                 hasUpdated, elem, modelVal, sched, onceWrites>>
  /\ UNCHANGED ctlKind

\* The timer callback of updateDefer, lines 259-262.  updateDefer is static
\* and its callback is an arrow function, so `this` is the class ABind.  The
\* class object does not carry the instance-private method
\* #getObjectProperty (line 311): evaluating this.#getObjectProperty throws
\* a TypeError, and the callback ends before it reaches ABind.update.
DeferredCallback(m, p) == UNCHANGED <<sched, dirOut>>

DeferFire(t) ==
  /\ Quiet
  /\ t \in deferred
  /\ t.rem = 0
  /\ deferred' = deferred \ {t}
  /\ DeferredCallback(t.m, t.p)
  /\ wrote' = {}
  /\ UNCHANGED grpVars
  /\ UNCHANGED <<model, dirCfg, dirLife, dirBind, inputTimer, hasUpdated,
                 elem, modelVal, onceWrites>>
  /\ UNCHANGED ctlKind

\* One tick of time passes for every timer and every output interval.
Dec(n) == IF n > 0 THEN n - 1 ELSE 0

Tick ==
  /\ Quiet
  /\ sinceLast' = [d \in Directives |->
                     IF sinceLast[d] < Throttle THEN sinceLast[d] + 1 ELSE Throttle]
  /\ outputTimer' = [d \in Directives |-> {Dec(r) : r \in outputTimer[d]}]
  /\ inputTimer' = [d \in Directives |->
                      {[t EXCEPT !.rem = Dec(@)] : t \in inputTimer[d]}]
  /\ deferred' = {[t EXCEPT !.rem = Dec(@)] : t \in deferred}
  /\ <<sinceLast, outputTimer, inputTimer, deferred>>' #
       <<sinceLast, outputTimer, inputTimer, deferred>>
  /\ wrote' = {}
  /\ UNCHANGED grpVars
  /\ UNCHANGED <<model, dirCfg, dirLife, boundElement, ctlListener, listeners,
                 subscriptionCallback, subscribedProperty, cbModel, subs,
                 pendingOutputValue, hasUpdated, elem, modelVal, sched,
                 onceWrites>>
  /\ UNCHANGED ctlKind

\* ---------------------------------------------------------- the group
\* connectedCallback lines 925-926: (get(key) || 0) + 1.
RefIncrement(c) == IF c = Absent \/ c = NaN THEN 1 ELSE c + 1

\* disconnectedCallback lines 960-966, the count left for the key: the entry
\* is deleted when the count is 1, else count - 1 is stored, which is NaN
\* when the key had no entry.
RefDecrement(c) ==
  CASE c = 1               -> Absent
    [] c = Absent \/ c = NaN -> NaN
    [] OTHER               -> c - 1

\* disconnectedCallback line 962: the registry entry goes with a count of 1.
RegistryAfterDisconnect(reg, k, c) ==
  IF c = 1 THEN [reg EXCEPT ![k] = None] ELSE reg

\* attributeChangedCallback of the group, lines 901-906.
GroupSetModel(g, k) ==
  /\ k # gModel[g]
  /\ gModel' = [gModel EXCEPT ![g] = k]
  /\ wrote' = {}
  /\ UNCHANGED <<gConnected, modelKey, modelInstance, mutationObserver,
                 leakedObserver, gMutPending, nested, loads, modelRegistry,
                 modelReferenceCounts, created>>
  /\ UNCHANGED dirVars
  /\ UNCHANGED ctlKind

\* connectedCallback up to its await, lines 912-920: without a model the
\* error is caught and nothing more happens; else #loadModel starts.  The
\* insertion of the group is a record for an observing group around it.
GroupConnect(g) ==
  /\ ~gConnected[g]
  /\ Len(loads[g]) < MaxLoads
  /\ gConnected' = [gConnected EXCEPT ![g] = TRUE]
  /\ loads' = [loads EXCEPT ![g] =
                 IF gModel[g] = Null THEN @
                 ELSE Append(@, [key |-> gModel[g], peer |-> None])]
  /\ gMutPending' = [h \in Groups |->
                       gMutPending[h] \/ (g \in Inside(h) /\ Observing(h))]
  /\ wrote' = {}
  /\ UNCHANGED <<gModel, modelKey, modelInstance, mutationObserver,
                 leakedObserver, nested, modelRegistry, modelReferenceCounts,
                 created>>
  /\ UNCHANGED dirVars
  /\ UNCHANGED ctlKind

\* disconnectedCallback, lines 955-967.  Only the observer the group still
\* references is disconnected, and its undelivered records are dropped.
GroupDisconnect(g) ==
  /\ gConnected[g]
  /\ gConnected' = [gConnected EXCEPT ![g] = FALSE]
  /\ mutationObserver' = [mutationObserver EXCEPT ![g] = FALSE]
  /\ gMutPending' = [gMutPending EXCEPT ![g] = @ /\ leakedObserver[g]]
  /\ IF modelKey[g] # Null
     THEN /\ modelRegistry' =
               RegistryAfterDisconnect(modelRegistry, modelKey[g],
                                       modelReferenceCounts[modelKey[g]])
          /\ modelReferenceCounts' =
               [modelReferenceCounts EXCEPT ![modelKey[g]] = RefDecrement(@)]
     ELSE UNCHANGED <<modelRegistry, modelReferenceCounts>>
  /\ wrote' = {}
  /\ UNCHANGED <<gModel, modelKey, modelInstance, leakedObserver, nested,
                 loads, created>>
  /\ UNCHANGED dirVars
  /\ UNCHANGED ctlKind

\* #loadModel, lines 1033-1060, once the module is imported: a constructible
\* export is instantiated with `new`, any other export is used as it is.
\* The registry is neither read nor written.
LoadedModel(k) == IF Instantiable(k) THEN InstNames[created + 1] ELSE Exported(k)

\* A variant of UpdateChildren that passes over the directives that are not
\* connected.
UpdateChildrenConnectedOnly(g, inst) ==
  LET ds == IF inst = Null THEN {}
            ELSE {d \in Descendants(g) : model[d] = Null /\ isConnected[d]}
  IN /\ model' = [d \in Directives |-> IF d \in ds THEN inst ELSE model[d]]
     /\ isInitializing' = [d \in Directives |-> isInitializing[d] \/ d \in ds]

\* #updateChildren, lines 1104-1125: every a-bind descendant without a model
\* gets the instance through its model setter (lines 872-875).  A directive
\* without a model was never initialized, so the teardown of its
\* re-initialization finds nothing to undo.
UpdateChildren(g, inst) ==
  LET ds == IF inst = Null THEN {}
            ELSE {d \in Descendants(g) : model[d] = Null}
  IN /\ model' = [d \in Directives |-> IF d \in ds THEN inst ELSE model[d]]
     /\ isInitializing' =
          [d \in Directives |-> isInitializing[d] \/ (d \in ds /\ isConnected[d])]

\* A load that completes hands its result to the loads of the same key that
\* are still in flight only if they share it (history, for the claims).
MarkPeers(ls, k, inst) ==
  [i \in 1..Len(ls) |->
     IF ls[i].key = k /\ ls[i].peer = None THEN [ls[i] EXCEPT !.peer = inst]
     ELSE ls[i]]

Remove(ls, i) == [j \in 1..(Len(ls) - 1) |-> IF j < i THEN ls[j] ELSE ls[j + 1]]

\* connectedCallback after its await, lines 920-939, for the i-th load of g.
\* The new observer replaces the one the group referenced; if that one was
\* still observing, it goes on observing.
GroupLoadDone(g, i) ==
  /\ i \in 1..Len(loads[g])
  /\ LET k    == loads[g][i].key
         inst == LoadedModel(k)
     IN /\ Instantiable(k) => created < MaxInst
        /\ modelReferenceCounts[k] < MaxCount
        /\ created' = IF Instantiable(k) THEN created + 1 ELSE created
        /\ modelKey' = [modelKey EXCEPT ![g] = k]
        /\ modelInstance' = [modelInstance EXCEPT ![g] = inst]
        /\ modelReferenceCounts' =
             [modelReferenceCounts EXCEPT ![k] = RefIncrement(@)]
        /\ UpdateChildren(g, inst)
        /\ loads' = [h \in Groups |->
                       MarkPeers(IF h = g THEN Remove(loads[g], i) ELSE loads[h],
                                 k, inst)]
  /\ mutationObserver' = [mutationObserver EXCEPT ![g] = TRUE]
  /\ leakedObserver' = [leakedObserver EXCEPT ![g] = @ \/ mutationObserver[g]]
  /\ wrote' = {}
  /\ UNCHANGED <<gModel, gConnected, gMutPending, nested, modelRegistry>>
  /\ UNCHANGED <<dirCfg, isConnected, childObserver, hasChild, mutPending,
                 dirBind, dirOut, inputTimer, hasUpdated, elem, modelVal,
                 sched, deferred, onceWrites>>
  /\ UNCHANGED ctlKind

\* The MutationObserver callback of the group, lines 932-937: nodes were
\* added, so #updateChildren runs with the instance the group holds now.
GroupChildObserved(g) ==
  /\ gMutPending[g]
  /\ gMutPending' = [gMutPending EXCEPT ![g] = FALSE]
  /\ UpdateChildren(g, modelInstance[g])
  /\ wrote' = {}
  /\ UNCHANGED grpRest
  /\ UNCHANGED <<dirCfg, isConnected, childObserver, hasChild, mutPending,
                 dirBind, dirOut, inputTimer, hasUpdated, elem, modelVal,
                 sched, deferred, onceWrites>>
  /\ UNCHANGED ctlKind

\* ------------------------------------------------------- the specification
\* The state after construction: fields at their declared defaults
\* (lines 99-133), nothing subscribed, nothing scheduled.
InitState ==
  /\ model = [d \in Directives |-> Null]
  /\ property = [d \in Directives |-> Null]
  /\ pull = [d \in Directives |-> FALSE]
  /\ push = [d \in Directives |-> FALSE]
  /\ once = [d \in Directives |-> FALSE]
  /\ throttle = [d \in Directives |-> 0]
  /\ isConnected = [d \in Directives |-> FALSE]
  /\ isInitializing = [d \in Directives |-> FALSE]
  /\ hasUpdated = [d \in Directives |-> FALSE]
  /\ boundElement = [d \in Directives |-> FALSE]
  /\ subscriptionCallback = [d \in Directives |-> FALSE]
  /\ subscribedProperty = [d \in Directives |-> Null]
  /\ childObserver = [d \in Directives |-> FALSE]
  /\ inputTimer = [d \in Directives |-> NoTimer]
  /\ outputTimer = [d \in Directives |-> NoTimer]
  /\ sinceLast = [d \in Directives |-> Throttle]
  /\ pendingOutputValue = [d \in Directives |-> Null]
  /\ ctlListener = [d \in Directives |-> FALSE]
  /\ hasChild = [d \in Directives |-> FALSE]
  /\ mutPending = [d \in Directives |-> FALSE]
  /\ listeners = [d \in Directives |-> 0]
  /\ elem = [d \in Directives |-> ""]
  /\ inputType = [d \in Directives |-> None]
  /\ valueAttribute = [d \in Directives |-> Null]
  /\ childElementCount = [d \in Directives |-> 0]
  /\ resolving = [d \in Directives |-> None]
  /\ subs = [m \in Objects |-> [p \in Props |-> [d \in Directives |-> 0]]]
  /\ cbModel = [d \in Directives |-> None]
  /\ pendingUpdates = [d \in Directives |-> None]
  /\ frameRequested = FALSE
  /\ frames = 0
  /\ deferred = {}
  /\ wrote = {}
  /\ onceWrites = [d \in Directives |-> 0]
  /\ gModel = [g \in Groups |-> Null]
  /\ gConnected = [g \in Groups |-> FALSE]
  /\ modelKey = [g \in Groups |-> Null]
  /\ modelInstance = [g \in Groups |-> Null]
  /\ mutationObserver = [g \in Groups |-> FALSE]
  /\ loads = [g \in Groups |-> <<>>]
  /\ leakedObserver = [g \in Groups |-> FALSE]
  /\ gMutPending = [g \in Groups |-> FALSE]
  /\ modelRegistry = [k \in AllKeys |-> None]
  /\ modelReferenceCounts = [k \in AllKeys |-> Absent]
  /\ created = 0

\* Models whose properties hold strings, and models whose properties hold
\* booleans.
StringModels == [m \in Objects |-> [p \in Props |-> IF p = "p" THEN "A" ELSE "B"]]
BooleanModels == [m \in Objects |-> [p \in Props |-> IF p = "p" THEN BTrue ELSE BFalse]]

\* Models in which the path p is dotted and its first segment is missing,
\* while q is a property of the object itself.
DottedModels ==
  [m \in Objects |-> [p \in Props |-> IF p = "p" THEN NoParent ELSE "A"]]

\* The page at the start: the two groups are siblings.
Init == InitState /\ nested = FALSE /\ modelVal = StringModels

\* The page at the start when group g2 is written inside group g1.
InitNested == InitState /\ nested = TRUE /\ modelVal = StringModels

\* Models whose properties hold the number 1.
NumberModels == [m \in Objects |-> [p \in Props |-> Num1]]

\* The page at the start when the models hold numbers.
InitNumbers == InitState /\ nested = FALSE /\ modelVal = NumberModels

\* The page at the start when the models hold booleans.
InitCheckbox == InitState /\ nested = FALSE /\ modelVal = BooleanModels

\* Lifecycle callbacks and setters of directive d.  The directives of this
\* model are bound through the property "p"; "q" is a second path of the
\* same models.
Lifecycle(d, ms) ==
  \/ Connect(d)
  \/ Disconnect(d)
  \/ AddChild(d)
  \/ ChildObserved(d)
  \/ BelowCap(d, MaxSubs) /\ InitializeResume(d)
  \/ \E m \in ms : SetModel(d, m)
  \/ SetProperty(d, "p")

\* One directive with every direction flag, no throttle.
Next ==
  \/ \E d \in Hosted : Lifecycle(d, Models)
  \/ \E d \in Hosted, b \in BOOLEAN : SetPull(d, b)
  \/ \E d \in Hosted, b \in BOOLEAN : SetPush(d, b)
  \/ \E d \in Hosted, b \in BOOLEAN : SetOnce(d, b)
  \/ \E d \in Hosted, v \in Typed : Interact(d, v)
  \/ \E m \in Models, p \in Props, v \in Published : Update(m, p, v)
  \/ Flush

Spec == Init /\ [][Next]_vars

\* One directive on the model m1 with `once` and `throttle`: debounced
\* input, rate-limited output, the passage of time.
NextTimed ==
  \/ \E d \in Hosted : Lifecycle(d, {"m1"})
  \/ \E d \in Hosted, b \in BOOLEAN : SetOnce(d, b)
  \/ \E d \in Hosted, t \in {0, Throttle} : SetThrottle(d, t)
  \/ \E d \in Hosted, v \in Typed : Interact(d, v)
  \/ \E d \in Hosted : InputTimerFire(d)
  \/ \E d \in Hosted : OutputTimerFire(d)
  \/ \E p \in Props, v \in Published : Update("m1", p, v)
  \/ Flush
  \/ Tick

SpecTimed == Init /\ [][NextTimed]_vars

\* One two-way directive and the deferred update of ABind.updateDefer.
NextDefer ==
  \/ \E d \in Hosted : Lifecycle(d, Models)
  \/ \E d \in Hosted, v \in Typed : Interact(d, v)
  \/ \E m \in Models, p \in Props, w \in 0..MaxDelay : UpdateDefer(m, p, w)
  \/ \E t \in deferred : DeferFire(t)
  \/ Flush
  \/ Tick

SpecDefer == Init /\ [][NextDefer]_vars

\* Two groups, each with one directive inside, and the loads of their models.
\* A group's model attribute is written once, as in markup.
NextGroup ==
  \/ \E g \in Groups, k \in Keys : gModel[g] = Null /\ GroupSetModel(g, k)
  \/ \E g \in Groups : GroupConnect(g)
  \/ \E g \in Groups : GroupDisconnect(g)
  \/ \E g \in Groups, i \in 1..MaxLoads : GroupLoadDone(g, i)
  \/ \E g \in Groups : GroupChildObserved(g)
  \/ \E d \in Hosted : Connect(d)
  \/ \E d \in Hosted : AddChild(d)
  \/ \E d \in Hosted : ChildObserved(d)
  \/ \E d \in Hosted : SetProperty(d, "p")
  \/ \E d \in Hosted : BelowCap(d, MaxSubs) /\ InitializeResume(d)

SpecGroup == Init /\ [][NextGroup]_vars


\* Group g2 inside group g1 while the page loads: the inner group is
\* connected after the outer one, and nothing is removed.
NextNested ==
  \/ \E g \in Groups, k \in Keys : gModel[g] = Null /\ GroupSetModel(g, k)
  \/ \E g \in Groups : (\A h \in Groups : g \in Inside(h) => gConnected[h])
                       /\ GroupConnect(g)
  \/ \E g \in Groups, i \in 1..MaxLoads : GroupLoadDone(g, i)
  \/ \E g \in Groups : GroupChildObserved(g)
  \/ \E d \in Children("g2") : Connect(d)
  \/ \E d \in Children("g2") : AddChild(d)
  \/ \E d \in Children("g2") : ChildObserved(d)
  \/ \E d \in Children("g2") : SetProperty(d, "p")
  \/ \E d \in Children("g2") : BelowCap(d, MaxSubs) /\ InitializeResume(d)

SpecNested == InitNested /\ [][NextNested]_vars

\* Groups whose model attribute may name a module of another origin.
NextRemote ==
  \/ \E g \in Groups, k \in AllKeys : gModel[g] = Null /\ GroupSetModel(g, k)
  \/ \E g \in Groups : GroupConnect(g)
  \/ \E g \in Groups : GroupDisconnect(g)
  \/ \E g \in Groups, i \in 1..MaxLoads : GroupLoadDone(g, i)
  \/ \E g \in Groups : GroupChildObserved(g)
  \/ \E d \in Hosted : Connect(d)

SpecRemote == Init /\ [][NextRemote]_vars

\* One directive on the model m1 whose property attribute is rewritten
\* between the two paths while it connects and disconnects.
NextProp ==
  \/ \E d \in Hosted : Connect(d)
  \/ \E d \in Hosted : Disconnect(d)
  \/ \E d \in Hosted : AddChild(d)
  \/ \E d \in Hosted : ChildObserved(d)
  \/ \E d \in Hosted : BelowCap(d, MaxStale) /\ InitializeResume(d)
  \/ \E d \in Hosted : SetModel(d, "m1")
  \/ \E d \in Hosted, p \in Props : SetProperty(d, p)
  \/ \E p \in Props, v \in Published : Update("m1", p, v)
  \/ Flush

SpecProp == Init /\ [][NextProp]_vars

\* Two directives that connect before any model is configured: d1 sits in
\* the group g1 and d2 in no connected group; a model reaches them through
\* the model setter or through the group.
NextNoModel ==
  \/ \E d \in Directives : Connect(d)
  \/ \E d \in Directives : Disconnect(d)
  \/ \E d \in Directives : AddChild(d)
  \/ \E d \in Directives : ChildObserved(d)
  \/ \E d \in Directives : SetProperty(d, "p")
  \/ \E d \in Directives : model[d] = Null /\ SetModel(d, "m1")
  \/ \E d \in Directives : BelowCap(d, MaxSubs) /\ InitializeResume(d)
  \/ gModel["g1"] = Null /\ GroupSetModel("g1", "state.js")
  \/ GroupConnect("g1")
  \/ \E i \in 1..MaxLoads : GroupLoadDone("g1", i)
  \/ GroupChildObserved("g1")
  \/ \E d \in Directives, v \in Typed : Interact(d, v)
  \/ \E v \in Published : Update("m1", "p", v)
  \/ Flush

SpecNoModel == Init /\ [][NextNoModel]_vars

\* One directive whose model is set to an object or to a string that
\* resolves to nothing.
NextRef ==
  \/ \E d \in Hosted : Lifecycle(d, {"m1", UnresolvedRef})
  \/ \E d \in Hosted, v \in Typed : Interact(d, v)
  \/ \E p \in Props, v \in Published : Update("m1", p, v)
  \/ Flush

SpecRef == Init /\ [][NextRef]_vars

\* One two-way directive bound to a checkbox, with or without a value
\* attribute, on a model whose property is a boolean.
NextCheckbox ==
  \/ \E d \in Hosted : Connect(d)
  \/ \E d \in Hosted : Disconnect(d)
  \/ \E d \in Hosted, va \in {Null, "any_value"} : AddCheckbox(d, va)
  \/ \E d \in Hosted : ChildObserved(d)
  \/ \E d \in Hosted : SetModel(d, "m1")
  \/ \E d \in Hosted : SetProperty(d, "p")
  \/ \E d \in Hosted : BelowCap(d, MaxSubs) /\ InitializeResume(d)
  \/ \E d \in Hosted : Toggle(d)
  \/ \E v \in {BTrue, BFalse} : Update("m1", "p", v)
  \/ Flush

SpecCheckbox == InitCheckbox /\ [][NextCheckbox]_vars

\* One two-way directive bound to a text control on a model whose property
\* is a number.
NextLoose ==
  \/ \E d \in Hosted : Lifecycle(d, {"m1"})
  \/ \E d \in Hosted, v \in TypedDigits : Interact(d, v)
  \/ \E v \in Published : Update("m1", "p", v)
  \/ Flush

SpecLoose == InitNumbers /\ [][NextLoose]_vars

\* Two directives with children bound to the same model and property; the
\* second one may have `once` or `push` set.
NextPair ==
  \/ \E d \in Directives : ~isConnected[d] /\ AddChild(d)
  \/ \E d \in Directives : Connect(d)
  \/ \E d \in Directives : model[d] = Null /\ SetModel(d, "m1")
  \/ \E d \in Directives : SetProperty(d, "p")
  \/ \E d \in Directives : BelowCap(d, MaxSubs) /\ InitializeResume(d)
  \/ \E b \in BOOLEAN : SetOnce("d2", b)
  \/ \E b \in BOOLEAN : SetPush("d2", b)
  \/ \E d \in Directives, v \in Typed : Interact(d, v)
  \/ Flush

SpecPair == Init /\ [][NextPair]_vars

\* Directives that are connected while they have no child element; children
\* are appended later, the first one and then one more.
NextWatch ==
  \/ \E d \in Directives : ~hasChild[d] /\ Connect(d)
  \/ \E d \in Directives : Disconnect(d)
  \/ \E d \in Directives : AddChild(d)
  \/ \E d \in Directives : AddSibling(d)
  \/ \E d \in Directives : ChildObserved(d)
  \/ \E d \in Directives : model[d] = Null /\ SetModel(d, "m1")
  \/ \E d \in Directives : SetProperty(d, "p")
  \/ \E d \in Directives : BelowCap(d, MaxSubs) /\ InitializeResume(d)

SpecWatch == Init /\ [][NextWatch]_vars

\* Two directives subscribing to the paths of the two models, and
\* ABind.update publishing on every path.
NextObserver ==
  \/ \E d \in Directives : ~isConnected[d] /\ AddChild(d)
  \/ \E d \in Directives : Connect(d)
  \/ \E d \in Directives : Disconnect(d)
  \/ \E d \in Directives, m \in Models : model[d] = Null /\ SetModel(d, m)
  \/ \E d \in Directives, p \in Props : SetProperty(d, p)
  \/ \E d \in Directives : BelowCap(d, MaxSubs) /\ InitializeResume(d)
  \/ \E m \in Models, p \in Props, v \in Typed : Update(m, p, v)
  \/ Flush

SpecObserver == Init /\ [][NextObserver]_vars

\* Directive d1 around <input type="file">, whose value cannot be written,
\* and d2 around a text input, on the path p of the same model.
NextFail ==
  \/ ~isConnected["d1"] /\ AddFileInput("d1")
  \/ ~isConnected["d2"] /\ AddChild("d2")
  \/ \E d \in Directives : Connect(d)
  \/ \E d \in Directives : Disconnect(d)
  \/ \E d \in Directives : model[d] = Null /\ SetModel(d, "m1")
  \/ \E d \in Directives : SetProperty(d, "p")
  \/ \E d \in Directives : BelowCap(d, MaxSubs) /\ InitializeResume(d)
  \/ \E v \in Typed \cup {Null} : Update("m1", "p", v)
  \/ Flush

SpecFail == Init /\ [][NextFail]_vars

\* Directives whose model is a selector of a custom element that is defined
\* later, and is assigned again, as an object, at any time.
NextResolve ==
  \/ \E d \in Directives : ~isConnected[d] /\ AddChild(d)
  \/ \E d \in Directives : Connect(d)
  \/ \E d \in Directives : SetProperty(d, "p")
  \/ \E d \in Directives : model[d] = Null /\ SetModel(d, CustomElementRef)
  \/ \E d \in Directives : model[d] # "m2" /\ SetModel(d, "m2")
  \/ \E d \in Directives : ResolveModelResume(d)
  \/ \E d \in Directives : BelowCap(d, MaxSubs) /\ InitializeResume(d)
  \/ \E d \in Directives, v \in Typed : Interact(d, v)
  \/ Flush

SpecResolve == Init /\ [][NextResolve]_vars

\* Two-way directives bound to checkboxes, with or without a value
\* attribute, on a model that only the user's clicks change.
NextRoundTrip ==
  \/ \E d \in Directives : Connect(d)
  \/ \E d \in Directives, va \in {Null, "any_value"} :
       ~isConnected[d] /\ AddCheckbox(d, va)
  \/ \E d \in Directives, m \in Models : model[d] = Null /\ SetModel(d, m)
  \/ \E d \in Directives : SetProperty(d, "p")
  \/ \E d \in Directives : BelowCap(d, MaxSubs) /\ InitializeResume(d)
  \/ \E d \in Directives : Toggle(d)
  \/ Flush

SpecRoundTrip == InitCheckbox /\ [][NextRoundTrip]_vars

\* Two directives on the model m1, through a dotted path whose first
\* segment is missing or through a plain property.
InitDotted == InitState /\ nested = FALSE /\ modelVal = DottedModels

NextDotted ==
  \/ \E d \in Directives : ~isConnected[d] /\ AddChild(d)
  \/ \E d \in Directives : Connect(d)
  \/ \E d \in Directives : Disconnect(d)
  \/ \E d \in Directives : model[d] = Null /\ SetModel(d, "m1")
  \/ \E d \in Directives, p \in Props : SetProperty(d, p)
  \/ \E d \in Directives : BelowCap(d, MaxSubs) /\ InitializeResume(d)
  \/ \E d \in Directives, v \in Typed : Interact(d, v)
  \/ Flush

SpecDotted == InitDotted /\ [][NextDotted]_vars

\* ------------------------------------------------------------- properties
\* d is subscribed where the directive believes it is: on the observer of
\* its model, on its property, initialization over.
Initialized(d) ==
  /\ isConnected[d] /\ ~isInitializing[d]
  /\ model[d] \in Objects /\ property[d] # Null
  /\ cbModel[d] = model[d] /\ subscribedProperty[d] = property[d]
  /\ Callbacks(model[d], property[d], d) > 0

TwoWay(d) == ~push[d] /\ ~pull[d] /\ throttle[d] = 0 /\ ~(once[d] /\ hasUpdated[d])

\* What a control shows for a published value v: its string form, and for
\* undefined the string form of what the model holds.
Shown(d, v) ==
  IF v = Undefined THEN DomString(modelVal[model[d]][property[d]])
  ELSE DomString(v)

C2_PushHoldsNoSubscription ==
  [][\A d \in Directives :
       /\ hasChild[d] /\ push[d] /\ ~pull[d] /\ InitializeResume(d)
            => \A m \in Objects, p \in Props : subs'[m][p][d] = 0
       /\ push[d] /\ push'[d] => d \notin wrote'
       /\ \A v \in Typed :
            push[d] /\ ~pull[d] /\ ctlListener[d] /\ model[d] \in Objects
                    /\ property[d] # Null /\ Interact(d, v)
              => modelVal'[model[d]][property[d]] = v]_vars

C4_OnceWritesOnce == \A d \in Directives : onceWrites[d] <= 1

\* The one write is done and a further published value waits for a flush.
C4_Witness ==
  /\ once["d1"] /\ onceWrites["d1"] = 1 /\ isConnected["d1"]
  /\ pendingUpdates["d1"] # None /\ frameRequested

C6_DeferPublishesCurrent ==
  [][\A t \in deferred :
       DeferFire(t)
         => \A d \in Directives :
              Callbacks(t.m, t.p, d) > 0 /\ CbImmediate(d)
                => pendingUpdates'[d] = modelVal[t.m][t.p] /\ frameRequested']_vars

\* A group has resolved key k: it is connected and its load is over.
Resolved(g, k) == gConnected[g] /\ modelKey[g] = k /\ loads[g] = <<>>

\* C7: two connected groups that resolved the same key hold one instance,
\* and every directive either of them supplied is bound to it.
C7_SameKeySameInstance ==
  \A g \in Groups, h \in Groups, k \in Keys :
    Resolved(g, k) /\ Resolved(h, k)
      => /\ modelInstance[g] = modelInstance[h]
         /\ \A d \in Children(g) \cup Children(h) :
              model[d] # Null => model[d] = modelInstance[g]

\* C8: the reference count of a key is the number of connected groups that
\* resolved it, and the key has no entry when there is none.
C8_CountIsConnectedGroups ==
  \A k \in Keys :
    modelReferenceCounts[k] = Cardinality({g \in Groups : Resolved(g, k)})

\* C9: the disconnect of the last connected group of a key removes the
\* key's reference count and registry entry, and a later load of a class
\* key yields an object no group was handed before.
C9_LastDisconnectPurges ==
  [][\A g \in Groups, k \in Keys :
       /\ GroupDisconnect(g) /\ Resolved(g, k)
                             /\ (\A h \in Groups \ {g} : ~Resolved(h, k))
            => /\ modelReferenceCounts'[k] = Absent
               /\ modelRegistry'[k] = None
       /\ \A i \in 1..MaxLoads :
            GroupLoadDone(g, i) /\ modelReferenceCounts[k] = Absent
                                /\ loads[g][i].key = k /\ Instantiable(k)
              => modelInstance'[g] \notin {InstNames[j] : j \in 1..created}]_vars

\* C10: a load that was in flight together with a load of the same key
\* delivers the instance that load delivered and creates none of its own.
C10_OneLoadForConcurrentRequests ==
  [][\A g \in Groups, i \in 1..MaxLoads :
       GroupLoadDone(g, i) /\ loads[g][i].peer # None
         => modelInstance'[g] = loads[g][i].peer /\ created' = created]_vars

\* C11: no step removes the reference count or the registry entry of a key
\* that a connected group which resolved it is still using after the step.
C11_NoPurgeWhileInUse ==
  [][\A k \in Keys :
       \/ modelReferenceCounts[k] # Absent /\ modelReferenceCounts'[k] = Absent
       \/ modelRegistry[k] # None /\ modelRegistry'[k] = None
       => \A g \in Groups : ~Resolved(g, k)']_vars

\* The directives of g without a model have the instance inst after the step
\* and, when connected, an initialization in flight.
Supplied(g, inst) ==
  \A d \in Descendants(g) :
    model[d] = Null => model'[d] = inst /\ (isConnected[d] => isInitializing'[d])

C13_ClosestGroupOnly ==
  [][\A g \in Groups : \A h \in Inside(g) : \A d \in Children(h) :
       /\ gConnected[h] /\ gModel[h] # Null
       /\ \/ \E i \in 1..MaxLoads : GroupLoadDone(g, i)
          \/ GroupChildObserved(g)
       => model'[d] = model[d]]_vars

\* C14: connecting a group whose model names a module of another origin
\* starts no load, and no step changes the reference count of such a key or
\* hands a group an instance for it.
C14_RemoteNeverLoaded ==
  [][/\ \A g \in Groups :
          gModel[g] \in RemoteKeys /\ GroupConnect(g) => loads'[g] = loads[g]
     /\ \A k \in RemoteKeys :
          /\ modelReferenceCounts'[k] = modelReferenceCounts[k]
          /\ \A g \in Groups : modelKey'[g] # k]_vars

\* C15: when the property of a connected, initialized directive is changed
\* from a to b, the directive re-initializes; none of its callbacks remains
\* on the path a of its model, so that a later ABind.update on a never
\* reaches its element; and the initialization that follows shows the
\* model's value at b in the element and subscribes it on b.
C15_PropertyChangeRebinds ==
  [][\A d \in Hosted : \A a \in Props, b \in Props :
       /\ (/\ a # b /\ Initialized(d) /\ property[d] = a
           /\ SetProperty(d, b))
          => /\ isInitializing'[d]
             /\ Callbacks(model[d], a, d)' = 0
       /\ (/\ isConnected[d] /\ hasChild[d] /\ model[d] \in Objects
           /\ property[d] = b
           /\ InitializeResume(d))
          => /\ elem'[d] = DomString(modelVal[model[d]][b])
             /\ Callbacks(model[d], b, d)' > 0]_vars

C17_HandOffsApart ==
  [][\A d \in Hosted :
       /\ throttle[d] > 0
       /\ \/ OutputTimerFire(d)
          \/ pendingUpdates'[d] \notin {pendingUpdates[d], None}
       => sinceLast[d] >= throttle[d]]_vars

\* C18: a directive without a model holds no element listener and no
\* subscription, has no initialization in flight (none is retried) and its
\* element is never written, whatever happens around it; connecting it
\* changes nothing of the other directives; when a model reaches it while
\* it is connected, by its model setter or from its group, an
\* initialization starts, and with a child and a property that
\* initialization attaches the listener, subscribes and writes the element.
C18_NoModelNoBinding ==
  [][\A d \in Directives :
       /\ model'[d] = Null
          => /\ listeners'[d] = 0 /\ ~ctlListener'[d]
             /\ ~subscriptionCallback'[d]
             /\ \A m \in Objects, p \in Props : subs'[m][p][d] = 0
             /\ ~isInitializing'[d]
             /\ ~hasUpdated'[d] /\ d \notin wrote'
       /\ (model[d] = Null /\ Connect(d))
          => \A e \in Directives \ {d} :
               /\ model'[e] = model[e] /\ isInitializing'[e] = isInitializing[e]
               /\ listeners'[e] = listeners[e] /\ elem'[e] = elem[e]
               /\ \A m \in Objects, p \in Props : subs'[m][p][e] = subs[m][p][e]
       /\ (model[d] = Null /\ isConnected[d] /\ model'[d] # Null)
          => isInitializing'[d]
       /\ (/\ hasChild[d] /\ property[d] # Null /\ model[d] \in Objects
           /\ InitializeResume(d))
          => /\ listeners'[d] > 0
             /\ Callbacks(model[d], property[d], d)' > 0
             /\ d \in wrote']_vars

\* d1 is connected with a child and a property but no model, its
\* initialization was attempted at connect and gave up, while d2 is bound.
C18_Witness ==
  /\ isConnected["d1"] /\ hasChild["d1"] /\ property["d1"] = "p"
  /\ ~childObserver["d1"] /\ model["d1"] = Null
  /\ gConnected["g1"] /\ loads["g1"] # <<>>
  /\ Initialized("d2") /\ elem["d2"] = "B"

\* C19: an initialization that finds the directive's model to be a string
\* that resolved to nothing attaches no element listener, creates no
\* subscription and writes nothing to the bound element.
C19_UnresolvedStaysUninitialized ==
  [][\A d \in Hosted :
       /\ model[d] = UnresolvedRef
       /\ InitializeResume(d)
       => /\ listeners'[d] = listeners[d]
          /\ subs' = subs
          /\ elem'[d] = elem[d] /\ d \notin wrote']_vars

\* C20: when a two-way directive bound to a checkbox completes its
\* initialization on a model whose property is true, the checkbox is
\* checked; and when the checked box of an initialized directive is
\* unchecked and the interaction event fires, the model property is false.
C20_CheckboxFollowsBoolean ==
  [][\A d \in Hosted :
       /\ (/\ inputType[d] = "checkbox" /\ TwoWay(d) /\ isConnected[d]
           /\ model[d] \in Objects /\ property[d] # Null
           /\ modelVal[model[d]][property[d]] = BTrue
           /\ InitializeResume(d))
          => elem'[d] = BTrue
       /\ (/\ inputType[d] = "checkbox" /\ TwoWay(d) /\ Initialized(d)
           /\ elem[d] = BTrue
           /\ Toggle(d))
          => modelVal'[model[d]][property[d]] = BFalse]_vars

C25_ModelChangeUnsubscribes ==
  [][\A d \in Hosted : \A m \in Models :
       /\ Initialized(d) /\ model[d] # m
       /\ SetModel(d, m)
       => \A p \in Props : subs'[model[d]][p][d] = 0]_vars

\* C26: a disconnected directive has no callback registered on any observer
\* and no live listener on its bound element.
C26_DisconnectedHoldsNothing ==
  \A d \in Hosted :
    ~isConnected[d]
    => /\ listeners[d] = 0
       /\ \A m \in Objects, p \in Props : Callbacks(m, p, d) = 0

\* C27: a step that tears a directive down (its disconnect, or a change of
\* its model or property while it is connected) leaves its input timer, its
\* output timer and its pending output value empty, and itself writes no
\* model and hands nothing to the scheduler; so a debounced write or a
\* rate-limited value that was pending can no longer fire.
C27_TeardownCancelsTimers ==
  [][\A d \in Hosted :
       /\ isConnected[d]
       /\ \/ Disconnect(d)
          \/ SetModel(d, "m1")
          \/ SetProperty(d, "p")
       => /\ inputTimer'[d] = NoTimer /\ outputTimer'[d] = NoTimer
          /\ pendingOutputValue'[d] = Null
          /\ modelVal' = modelVal /\ sched' = sched]_vars

\* The directive was bound and is disconnected; "B" was typed into its
\* control under a throttle, the model never received it and no timer is left.
C27_Witness ==
  \E d \in Hosted :
    /\ ~isConnected[d] /\ hasUpdated[d] /\ throttle[d] > 0
    /\ elem[d] = "B" /\ modelVal["m1"]["p"] # "B"
    /\ inputTimer[d] = NoTimer /\ outputTimer[d] = NoTimer
    /\ pendingOutputValue[d] = Null

\* C28: a value the scheduler holds for a directive is discarded when the
\* directive is torn down: after its disconnect, or after a change of its
\* model or property while it is connected, the scheduler holds no value for
\* it, so the next flush cannot write a value of the previous binding.
C28_TeardownDiscardsScheduled ==
  [][\A d \in Hosted :
       /\ isConnected[d] /\ pendingUpdates[d] # None
       /\ \/ Disconnect(d)
          \/ \E m \in Models : SetModel(d, m)
          \/ SetProperty(d, "p")
       => pendingUpdates'[d] = None]_vars

\* C29: with throttle t > 0, a change published to a directive's callback
\* (one that is not ignored for a consumed `once`) less than t after the
\* directive's last output is not handed to the scheduler but becomes the
\* pending output value, replacing the one before, and a timer for the rest
\* of the interval is armed only if none is armed; a directive has at most
\* one output timer; when the timer fires the pending output value is handed
\* to the scheduler and no output timer is left.
C29_RateLimitedOutput ==
  [][\A d \in Hosted :
       /\ \A p \in Props, v \in Published :
            /\ throttle[d] > 0 /\ sinceLast[d] < throttle[d]
            /\ Callbacks("m1", p, d) > 0 /\ ~CbIgnored(d)
            /\ Update("m1", p, v)
            => /\ pendingOutputValue'[d] = v
               /\ pendingUpdates'[d] = pendingUpdates[d]
               /\ outputTimer'[d] =
                    IF outputTimer[d] = NoTimer
                    THEN {throttle[d] - sinceLast[d]}
                    ELSE outputTimer[d]
       /\ Cardinality(outputTimer'[d]) <= 1
       /\ (outputTimer[d] # NoTimer /\ OutputTimerFire(d))
          => /\ pendingUpdates'[d] = pendingOutputValue[d]
             /\ frameRequested'
             /\ outputTimer'[d] = NoTimer]_vars

\* The output timer has just fired: the pending output value is scheduled,
\* no timer is left and the interval has restarted.
C29_Witness ==
  \E d \in Hosted :
    /\ throttle[d] > 0 /\ sinceLast[d] = 0
    /\ pendingOutputValue[d] = Num1 /\ pendingUpdates[d] = Num1
    /\ outputTimer[d] = NoTimer /\ elem[d] = "A"

C32_WatchFiresOnce ==
  [][\A d \in Directives :
       /\ ~isConnected[d] /\ isConnected'[d] /\ ~hasChild[d]
            => childObserver'[d] /\ ~mutPending'[d]
                 /\ isInitializing'[d] = isInitializing[d]
       /\ mutPending[d] /\ ~mutPending'[d] /\ isConnected'[d]
            => /\ childObserver[d] /\ hasChild[d] /\ ~childObserver'[d]
               /\ isInitializing'[d] = (isInitializing[d] \/ model[d] # Null)
       /\ ~mutPending[d] /\ mutPending'[d]
            => childObserver[d] /\ ~hasChild[d] /\ hasChild'[d]
       /\ ~childObserver[d] /\ childObserver'[d]
            => ~isConnected[d] /\ isConnected'[d]
       /\ ~childObserver[d] /\ AddSibling(d)
            => ~mutPending'[d] /\ isInitializing'[d] = isInitializing[d]
       /\ isConnected[d] /\ ~isConnected'[d]
            => ~childObserver'[d] /\ ~mutPending'[d]
       /\ mutPending'[d] => childObserver'[d] /\ isConnected'[d]]_vars

\* d1 was connected without a child; its watch has fired and detached, the
\* initialization it started has bound the element, and one more child was
\* appended without effect.
C32_Witness ==
  /\ isConnected["d1"] /\ childElementCount["d1"] = 2
  /\ ~childObserver["d1"] /\ ~mutPending["d1"]
  /\ Initialized("d1") /\ listeners["d1"] = 1

\* C33: a publish of v on path p of model m hands v, within the same step, to
\* every directive with a callback in the subscriber set of exactly (m, p),
\* and leaves alone every directive without one, whatever it has subscribed
\* on another path or another model and whatever it had subscribed before it
\* unsubscribed; a publish on a path without subscribers changes nothing, and
\* no publish changes a subscriber set.
C33_PublishExactPath ==
  [][\A m \in Models : \A p \in Props : \A v \in Typed :
       Update(m, p, v) =>
         /\ \A d \in Directives :
              /\ subs[m][p][d] = 0 =>
                   /\ pendingUpdates'[d] = pendingUpdates[d]
                   /\ pendingOutputValue'[d] = pendingOutputValue[d]
                   /\ outputTimer'[d] = outputTimer[d]
              /\ subs[m][p][d] > 0 /\ ~CbIgnored(d) /\ throttle[d] = 0
                   => pendingUpdates'[d] = v /\ frameRequested'
         /\ (\A d \in Directives : subs[m][p][d] = 0)
              => UNCHANGED <<sched, dirOut>>
         /\ subs' = subs]_vars

\* "B" was published on m1.p: d1, subscribed there, holds it; d2, subscribed
\* on another path or model, holds nothing.
C33_Witness ==
  /\ subs["m1"]["p"]["d1"] = 1 /\ subs["m1"]["p"]["d2"] = 0
  /\ subs["m1"]["q"]["d2"] + subs["m2"]["p"]["d2"] > 0
  /\ pendingUpdates["d1"] = "B" /\ pendingUpdates["d2"] = None
  /\ frameRequested

\* C34: in every reachable state a directive whose push flag is set has no
\* callback in any subscriber set.
C34_PushNeverSubscribed ==
  \A d \in Directives :
    push[d] => \A m \in Objects : \A p \in Props : subs[m][p][d] = 0

\* C35: a flush in which the write of one directive fails still writes every
\* other connected directive's pending value, leaves the scheduler without
\* pending values and without a requested frame, and whenever a frame counts
\* as requested one is really outstanding, so that a later scheduleUpdate
\* arms a flush.
C35_FlushSurvivesFailure ==
  [][/\ frames > 0 /\ frames' < frames /\ Flush
          => /\ \A d \in Directives :
                  FlushApplies(d) /\ ~FlushThrows(d) => d \in wrote'
             /\ \A d \in Directives : pendingUpdates'[d] = None
             /\ ~frameRequested'
     /\ frameRequested' => frames' > 0]_vars

\* C36: in every reachable state a directive has at most one live element
\* listener and, over all models and paths, at most one callback in the
\* subscriber sets, and a callback that is subscribed is the one the directive
\* references, registered where its teardown will look for it.
C36_AtMostOneBinding ==
  \A d \in Directives :
    /\ listeners[d] <= 1
    /\ \A m \in Objects : \A p \in Props :
         /\ subs[m][p][d] <= 1
         /\ subs[m][p][d] > 0 =>
              /\ subscriptionCallback[d] /\ cbModel[d] = m
              /\ subscribedProperty[d] = p /\ model[d] = m
         /\ \A m2 \in Objects : \A p2 \in Props :
              subs[m][p][d] > 0 /\ subs[m2][p2][d] > 0 => m = m2 /\ p = p2

\* C37: the resolution an initialization waited for replaces the model only
\* while the model is still the reference it resolved, so that a model
\* assigned during the wait stays the model; and the initialization that
\* completes binds the directive to the model it has then.
C37_LatestModelWins ==
  [][\A d \in Directives :
       /\ resolving[d] # None /\ resolving'[d] = None
            => model[d] \in Selectors /\ model'[d] = QuerySelector(model[d])
       /\ isInitializing[d] /\ ~isInitializing'[d] /\ cbModel'[d] # None
            => cbModel'[d] = model[d]]_vars

\* C38: with throttle t > 0, when a published value is handed to the
\* scheduler immediately no older value stays armed behind it: the delayed
\* output timer is not left running with a different pending value, which it
\* would deliver after, and over, the newer one.
C38_NoStaleDelivery ==
  [][\A d \in Hosted : \A v \in Published :
       /\ throttle[d] > 0 /\ isConnected[d] /\ ~push[d]
       /\ subs["m1"]["p"][d] > 0 /\ CbImmediate(d)
       /\ pendingUpdates'[d] = v
       /\ Update("m1", "p", v)
       => outputTimer'[d] = NoTimer \/ pendingOutputValue'[d] = v]_vars

\* C39: round trip on a checkbox.  When the flush writes back to the box of
\* a two-way directive the value that the interaction event extracted from
\* the box's present state and stored in the model, the box keeps that
\* state: a box the user has just checked is still checked.
C39_RoundTripKeepsState ==
  [][\A d \in Directives :
       /\ inputType[d] = "checkbox" /\ Initialized(d) /\ TwoWay(d)
       /\ pendingUpdates[d] = CheckboxValue(d, elem[d])
       /\ modelVal[model[d]][property[d]] = pendingUpdates[d]
       /\ frames > 0 /\ frames' < frames
       /\ Flush
       => elem'[d] = elem[d]]_vars

\* C40: when an interaction on the control of a directive publishes v on the
\* directive's path, a read of the model at that path yields v right after;
\* and when the path runs through a segment that is missing, so that nothing
\* can be written, the interaction schedules nothing for any directive.
C40_PublishesWhatWasWritten ==
  [][\A d \in Directives : \A v \in Typed :
       /\ /\ Initialized(d) /\ throttle[d] = 0
          /\ pendingUpdates[d] # v /\ pendingUpdates'[d] = v
          /\ Interact(d, v)
          => GetObjectProperty(model[d], property[d])' = v
       /\ /\ Initialized(d) /\ throttle[d] = 0
          /\ modelVal[model[d]][property[d]] = NoParent
          /\ Interact(d, v)
          => UNCHANGED sched]_vars

====
